---------------------------- MODULE Spec2Model ----------------------------
(***************************************************************************)
(* Batch-submission and retry controller of the Ozon listing assistant.    *)
(*                                                                         *)
(* The model follows the React component App (src/unnamed/part_000, the    *)
(* two-engine build, and src/unnamed/part_001, the DeepSeek-only build),   *)
(* the Gemini adapter (src/services/geminiService.ts) and the DeepSeek     *)
(* adapter (src/unnamed/part_002).                                         *)
(*                                                                         *)
(* JavaScript runs every handler to completion: one action of the model is *)
(* one synchronous segment of the code, from an event (click, response,    *)
(* timer) to the next await of a network call or of a timer.  Each call of *)
(* handleProcess is a closure of its own (inputs, provider, cursor i), so  *)
(* the model keeps one record per started run.                             *)
(***************************************************************************)
EXTENDS Integers, Sequences, FiniteSets, TLC

(***************************************************************************)
(* Bounds of the model                                                     *)
(***************************************************************************)
\* the longest pasted list, in lines that parse to a record
MaxInputs == 9
\* the longest text parseInput is tried on, in characters
MaxText == 5
\* the longest result list downloadCSV is tried on
MaxRows == 2
\* how many times handleProcess may be accepted in one session
MaxRuns == 2
\* how many batches may be handed to an adapter in one session
MaxCalls == 3

(***************************************************************************)
(* Characters and strings: a string is a sequence of one-character strings *)
(***************************************************************************)
TAB == "\t"
NL == "\n"
SP == " "

IsSpace(c) == c \in {SP, TAB, NL}

\* String.prototype.trim
RECURSIVE TrimLeft(_)
TrimLeft(s) ==
    IF s = <<>> THEN <<>>
    ELSE IF IsSpace(Head(s)) THEN TrimLeft(Tail(s)) ELSE s

RECURSIVE TrimRight(_)
TrimRight(s) ==
    IF s = <<>> THEN <<>>
    ELSE IF IsSpace(s[Len(s)]) THEN TrimRight(SubSeq(s, 1, Len(s) - 1)) ELSE s

Trim(s) == TrimRight(TrimLeft(s))

\* String.prototype.split with a one-character separator
RECURSIVE SplitOn(_, _, _)
SplitOn(s, sep, cur) ==
    IF s = <<>> THEN <<cur>>
    ELSE IF Head(s) = sep THEN <<cur>> \o SplitOn(Tail(s), sep, <<>>)
    ELSE SplitOn(Tail(s), sep, Append(cur, Head(s)))

RECURSIVE SkipSpaces(_)
SkipSpaces(s) ==
    IF s # <<>> /\ Head(s) = SP THEN SkipSpaces(Tail(s)) ELSE s

\* line.split(/\t| {2,}/): a tab, or a maximal run of two or more spaces,
\* separates two fields; a single space belongs to the field
RECURSIVE SplitFields(_, _)
SplitFields(s, cur) ==
    IF s = <<>> THEN <<cur>>
    ELSE IF Head(s) = TAB THEN <<cur>> \o SplitFields(Tail(s), <<>>)
    ELSE IF Head(s) = SP /\ Len(s) >= 2 /\ s[2] = SP
         THEN <<cur>> \o SplitFields(SkipSpaces(s), <<>>)
    ELSE SplitFields(Tail(s), Append(cur, Head(s)))

\* parts[k]?.trim() || ''
FieldOf(parts, k) == IF k <= Len(parts) THEN Trim(parts[k]) ELSE <<>>

ParseLine(line) ==
    LET parts == SplitFields(line, <<>>)
    IN  [sku |-> FieldOf(parts, 1), chineseName |-> FieldOf(parts, 2)]

RECURSIVE FilterValid(_)
FilterValid(ps) ==
    IF ps = <<>> THEN <<>>
    ELSE IF Head(ps).sku # <<>> /\ Head(ps).chineseName # <<>>
         THEN <<Head(ps)>> \o FilterValid(Tail(ps))
         ELSE FilterValid(Tail(ps))

parseInput(text) ==
    LET lines == SplitOn(Trim(text), NL, <<>>)
    IN  FilterValid([k \in 1..Len(lines) |-> ParseLine(lines[k])])

(***************************************************************************)
(* The texts a user pastes                                                 *)
(***************************************************************************)
SkuChars == <<"a", "b", "c", "d", "e", "f", "g", "h", "i", "j", "k", "l">>
NameChars == <<"A", "B", "C", "D", "E", "F", "G", "H", "I", "J", "K", "L">>

\* line k of a pasted list: odd lines are tab separated (copied from a
\* sheet), even lines are separated by two spaces (typed)
LineOf(k) ==
    IF k % 2 = 1 THEN <<SkuChars[k], TAB, NameChars[k]>>
    ELSE <<SkuChars[k], SP, SP, NameChars[k]>>

RECURSIVE TextOf(_)
TextOf(n) ==
    IF n = 0 THEN <<>>
    ELSE IF n = 1 THEN LineOf(1)
    ELSE TextOf(n - 1) \o <<NL>> \o LineOf(n)

\* "A\tfoo\nB  bar\n\nC" with one-letter names: a blank line and a line
\* with a key only
SampleText == <<"a", TAB, "A", NL, "b", SP, SP, "B", NL, NL, "c">>

\* nothing but a key: not blank, and no record
KeyOnlyText == <<"c">>

\* a list in which a key comes twice, with two names
DuplicateText == <<"a", TAB, "A", NL, "a", TAB, "B", NL, "b", SP, SP, "C">>

RawTexts == {<<>>, KeyOnlyText, SampleText, DuplicateText, TextOf(MaxInputs)}

ApiKeys == {<<>>, <<SP>>, <<"s", "k">>}


(***************************************************************************)
(* Provider responses                                                      *)
(***************************************************************************)
\* the entry a provider returns for one submitted record
EntryFor(p) ==
    [sku |-> p.sku, russianName |-> <<"R">> \o p.sku,
     russianDescription |-> <<"D">>, backTranslation |-> <<"B">> \o p.sku]

\* an entry whose sku is the sku of no submitted record
StrayEntry ==
    [sku |-> <<"?">>, russianName |-> <<"R">>,
     russianDescription |-> <<"D">>, backTranslation |-> <<"B">>]

Reverse(s) == [k \in 1..Len(s) |-> s[Len(s) + 1 - k]]

\* what a provider may answer to a batch: every record in order; the
\* records in another order and one of them missing; one entry too many
ResponseEntries(batch) ==
    LET echo == [k \in 1..Len(batch) |-> EntryFor(batch[k])]
    IN  {echo, SubSeq(Reverse(echo), 2, Len(echo)), Append(echo, StrayEntry)}

\* the completions of one network request:
\*   type "reject"   the request itself failed (no response)
\*   type "response" an HTTP response: status, whether its body is readable
\*                  as JSON, and the entries it then holds
\* has429 tells whether the text of the error of a failed request holds "429"
NoEntries == <<>>

\* isArray tells whether the JSON of a readable body is an array of entries
Completion(type, st, readable, h429, es) ==
    [type |-> type, status |-> st, readable |-> readable, has429 |-> h429,
     entries |-> es, isArray |-> TRUE]

\* a response whose content is a JSON object that holds no array and no
\* products, such as {"message": "..."}
ObjectCompletion ==
    [Completion("response", 200, TRUE, FALSE, NoEntries) EXCEPT !.isArray = FALSE]

Completions(batch) ==
    {Completion("response", 200, TRUE, FALSE, es) : es \in ResponseEntries(batch)}
    \cup {Completion("response", 200, FALSE, h, NoEntries) : h \in BOOLEAN}
    \cup {Completion("response", st, rd, st = 429, NoEntries) :
             st \in {429, 500}, rd \in BOOLEAN}
    \cup {Completion("reject", st, FALSE, h, NoEntries) :
             st \in {0, 429}, h \in BOOLEAN}
    \cup {ObjectCompletion}

(***************************************************************************)
(* Gemini adapter: generateWithRetry and processProductsBatch              *)
(***************************************************************************)
maxRetries == 3

Pow2(n) == IF n = 0 THEN 1 ELSE IF n = 1 THEN 2 ELSE IF n = 2 THEN 4
           ELSE IF n = 3 THEN 8 ELSE 16

\* const isRateLimit = error.message?.includes('429') || error.status === 429
isRateLimit(error) == error.has429 \/ error.status = 429

\* the error the catch block of generateWithRetry sees: the rejection of
\* generateContent (an HTTP failure has a status), or the SyntaxError of
\* JSON.parse (no status)
GeminiError(c) ==
    IF c.type = "response" /\ c.status = 200
    THEN [status |-> 0, has429 |-> c.has429, message |-> "SyntaxError"]
    ELSE [status |-> c.status, has429 |-> c.has429, message |-> "ApiError"]

NoError == [status |-> 0, has429 |-> FALSE, message |-> ""]

Return(value) == [next |-> "return", value |-> value, wait |-> 0, error |-> NoError]
Retry(wait) == [next |-> "retry", value |-> NoEntries, wait |-> wait, error |-> NoError]
Throw(error) == [next |-> "throw", value |-> NoEntries, wait |-> 0, error |-> error]

\* mutants: the last attempt waits and retries too; every error is retried
GeminiMayRetryOnceMore(error, attempt) == isRateLimit(error) /\ attempt < maxRetries
GeminiMayRetryAnyError(error, attempt) == attempt < maxRetries - 1

\* whether the attempt of generateWithRetry may wait and go round again
GeminiMayRetry(error, attempt) == isRateLimit(error) /\ attempt < maxRetries - 1

\* one round of the for loop of generateWithRetry, from the completion of
\* the request of this attempt
generateWithRetry(attempt, c) ==
    IF c.type = "response" /\ c.status = 200 /\ c.readable
    THEN Return(c.entries)
    ELSE IF GeminiMayRetry(GeminiError(c), attempt)
         THEN Retry(Pow2(attempt + 1) * 1000)
         ELSE Throw(GeminiError(c))

\* results.map(...) of a value that is no array
TypeError == [status |-> 0, has429 |-> FALSE, message |-> "map is not a function"]

\* processProductsBatch around generateWithRetry: the value returned is
\* mapped, and a value that is no array throws inside the try block
processProductsBatch(step, c) ==
    IF step.next = "return" /\ ~c.isArray THEN Throw(TypeError) ELSE step

\* the fixed text of the Error processProductsBatch throws ("API quota may
\* be exhausted or the connection timed out ...")
GeminiFailureMessage == <<"API quota or timeout">>

(***************************************************************************)
(* DeepSeek adapter: makeRequest and processProductsWithDeepSeek           *)
(***************************************************************************)
RateLimitCeiling == 3
CatchCeiling == 2
FlatDelay == 2000

\* mutant: the catch block retries at the attempt of index 2 too
DeepSeekCatchThrice(attempt, error) ==
    IF attempt < CatchCeiling + 1 THEN Retry(FlatDelay) ELSE Throw(error)

\* mutant: the catch block retries once only
DeepSeekCatchOnce(attempt, error) ==
    IF attempt < CatchCeiling - 1 THEN Retry(FlatDelay) ELSE Throw(error)

\* catch (error) { if (attempt < 2) { await delay(2000); return makeRequest(attempt + 1) } throw error }
DeepSeekCatch(attempt, error) ==
    IF attempt < CatchCeiling THEN Retry(FlatDelay) ELSE Throw(error)

HttpError(st) ==
    [status |-> st, has429 |-> st = 429,
     message |-> IF st = 429 THEN "HTTP error! status: 429"
                 ELSE "HTTP error! status: 500"]
FetchError == [status |-> 0, has429 |-> FALSE, message |-> "Failed to fetch"]
SyntaxError == [status |-> 0, has429 |-> FALSE, message |-> "Unexpected token"]

\* mutant: the back-off path is left one attempt early
DeepSeekBackoffEarly(st, attempt) == st = 429 /\ attempt < RateLimitCeiling - 1

\* whether a response that is not ok takes the back-off path
DeepSeekBackoff(st, attempt) == st = 429 /\ attempt < RateLimitCeiling

\* one call of makeRequest(attempt), from the completion of its fetch; the
\* recursive call is returned without await, so its failure is not caught
\* by this call's catch block
makeRequest(attempt, c) ==
    IF c.type = "reject" THEN DeepSeekCatch(attempt, FetchError)
    ELSE IF c.status # 200
         THEN IF ~c.readable THEN DeepSeekCatch(attempt, SyntaxError)
              ELSE IF DeepSeekBackoff(c.status, attempt)
                   THEN Retry(Pow2(attempt + 1) * 1000)
                   ELSE DeepSeekCatch(attempt, HttpError(c.status))
    ELSE IF c.readable THEN Return(c.entries)
    ELSE DeepSeekCatch(attempt, SyntaxError)

\* processProductsWithDeepSeek around makeRequest(0):
\* Array.isArray(rawResults) ? rawResults : (rawResults.products || [])
processProductsWithDeepSeek(step, c) ==
    IF step.next = "return" /\ ~c.isArray THEN Return(NoEntries) ELSE step

\* mutant: the message of the error is left out
DeepSeekFailureMessageBare(error) == <<"DeepSeek failed: ", "">>

\* `DeepSeek <processing failed>: ${error.message}`
DeepSeekFailureMessage(error) == <<"DeepSeek failed: ", error.message>>

(***************************************************************************)
(* Reconciliation, in both adapters                                        *)
(***************************************************************************)
\* the sentinel name, "unknown" in Chinese
Unknown == <<"unknown">>

\* mutant: the last record with the key is taken
RECURSIVE FindNameLast(_, _)
FindNameLast(products, sku) ==
    IF products = <<>> THEN Unknown
    ELSE IF products[Len(products)].sku = sku
         THEN products[Len(products)].chineseName
         ELSE FindNameLast(SubSeq(products, 1, Len(products) - 1), sku)

\* products.find(p => p.sku === res.sku)?.chineseName || Unknown
RECURSIVE FindName(_, _)
FindName(products, sku) ==
    IF products = <<>> THEN Unknown
    ELSE IF Head(products).sku = sku
         THEN (IF Head(products).chineseName = <<>> THEN Unknown
               ELSE Head(products).chineseName)
         ELSE FindName(Tail(products), sku)

Reconcile(products, entries) ==
    [k \in 1..Len(entries) |->
        [sku |-> entries[k].sku,
         chineseName |-> FindName(products, entries[k].sku),
         russianName |-> entries[k].russianName,
         russianDescription |-> entries[k].russianDescription,
         backTranslation |-> entries[k].backTranslation]]

(***************************************************************************)
(* State                                                                   *)
(***************************************************************************)
VARIABLES
    app,                    \* which build of App runs: "part_000" or "part_001"
    rawInput,               \* useState(''): the text area
    provider,               \* useState('gemini'): the engine selected
    deepSeekKey,            \* useState(''): the key (apiKey in part_001)
    status,                 \* useState({total: 0, completed: 0, isProcessing: false})
    results,                \* useState([]): the accumulated results
    isWaitingForNextBatch,  \* useState(false)
    alert,                  \* the message the last handler showed with alert()
    download,               \* the text of the file downloadCSV handed over last
    runs                    \* the calls of handleProcess: one closure per slot

vars == <<app, rawInput, provider, deepSeekKey, status, results,
          isWaitingForNextBatch, alert, download, runs>>

Apps == {"part_000", "part_001"}
Providers == {"gemini", "deepseek"}
Slots == 1..MaxRuns

\* status.error when it is undefined
Undefined == <<>>

Min(a, b) == IF a < b THEN a ELSE b

\* const batchSize = provider === 'gemini' ? 4 : 5 (part_000); 5 (part_001)
GeminiBatchSize == 4
DeepSeekBatchSize == 5
BatchSize(prov) == IF prov = "gemini" THEN GeminiBatchSize ELSE DeepSeekBatchSize

\* mutant: the slice takes one record of the next batch too
SliceOneMore(inputs, i, size) ==
    SubSeq(inputs, i + 1, Min(i + size + 1, Len(inputs)))

\* inputs.slice(i, i + batchSize), i counted from 0
Slice(inputs, i, size) == SubSeq(inputs, i + 1, Min(i + size, Len(inputs)))

\* how the failures of the current adapter call look so far (an observer of
\* the run, no state of the program): "none", or the class all of them
\* share, or "mixed".  For Gemini a failure is "rate" when the error has
\* status 429 or "429" in its text; for DeepSeek when the response is an
\* HTTP 429 with a JSON body ("mixed" when its body is no JSON: a rate
\* limit the adapter cannot read)
FailureClass(prov, c) ==
    IF prov = "gemini"
    THEN (IF c.status = 429 \/ c.has429 THEN "rate" ELSE "other")
    ELSE (IF c.type = "response" /\ c.status = 429
          THEN (IF c.readable THEN "rate" ELSE "mixed")
          ELSE "other")

\* whether the failed attempt was answered with a rate limit: for Gemini the
\* error the catch block classifies so, for DeepSeek an HTTP response with
\* status 429, whatever its body
RateLimited(prov, c) ==
    IF prov = "gemini" THEN isRateLimit(GeminiError(c))
    ELSE c.type = "response" /\ c.status = 429

KindsAfter(kinds, class) ==
    IF kinds = "none" \/ kinds = class THEN class ELSE "mixed"

\* mutant: the counter goes on from the call before
FirstAttemptCarried(previous) == previous

\* the attempt an adapter call begins with, whatever the attempt the call
\* before it ended with: for (let attempt = 0; ...) and makeRequest(0)
FirstAttempt(previous) == 0

\* a slot no call of handleProcess uses.  The fields of a run:
\*   inputs, provider   what the closure captured when it started
\*   i                  the cursor of the for loop
\*   pc                 where the run is suspended: "fetch" (a request is in
\*                      flight), "backoff" (the delay before a retry),
\*                      "pacing" (the delay before the next batch), "done"
\*   attempt, wait      the attempt of the adapter's current call and the
\*                      delay the run is waiting for, in ms
\*   pacings            the pacing delays the run has started (observer)
\*   lastError          the error of the attempt that made the call throw
\*                      (observer)
\*   lastArray          whether the content of the response the last call
\*                      returned with was an array (observer)
\*   prevRetried        whether the adapter call before the current one sent
\*                      more than one request (observer)
\*   calls, returned    the batches handed to the adapter and the records it
\*                      returned, in order (observers)
\*   nreq, kinds        the requests of the current call and the class of
\*                      its failures (observers)
\*   lastRate           during the delay before a retry: whether the attempt
\*                      that failed was answered with a rate limit (observer)
\*   received           the entries of the responses the adapter parsed, one
\*                      sequence per batch that succeeded (observer)
\*   callResult         how the last call ended: "pending", "ok", "threw"
\*   failed             the loop was left through catch
FreeRun ==
    [inputs |-> <<>>, provider |-> "gemini", i |-> 0, pc |-> "free",
     attempt |-> 0, wait |-> 0, calls |-> <<>>, nreq |-> 0, kinds |-> "none",
     lastRate |-> FALSE, received |-> <<>>, pacings |-> 0,
     prevRetried |-> FALSE, lastError |-> NoError, lastArray |-> TRUE,
     callResult |-> "pending", returned |-> <<>>, failed |-> FALSE]

\* the run handleProcess starts: the loop is entered with i = 0 and the
\* first batch is handed to the adapter, which sends its first request
NewRun(inputs, prov) ==
    [inputs |-> inputs, provider |-> prov, i |-> 0, pc |-> "fetch",
     attempt |-> FirstAttempt(0), wait |-> 0,
     calls |-> <<Slice(inputs, 0, BatchSize(prov))>>,
     nreq |-> 1, kinds |-> "none", lastRate |-> FALSE, received |-> <<>>,
     pacings |-> 0, prevRetried |-> FALSE, lastError |-> NoError,
     lastArray |-> TRUE,
     callResult |-> "pending", returned |-> <<>>, failed |-> FALSE]

Live(run) == run.pc \in {"fetch", "backoff", "pacing"}

\* a run that has ended is kept until the user's next action, so that the
\* state it ended in can be observed; then its slot is free again
Purge(rs) == [r \in Slots |-> IF rs[r].pc = "done" THEN FreeRun ELSE rs[r]]

\* the batches handed to an adapter by the runs of the slots
RECURSIVE TotalCalls(_, _)
TotalCalls(rs, n) ==
    IF n = 0 THEN 0 ELSE Len(rs[n].calls) + TotalCalls(rs, n - 1)

\* no message shown
NoAlert == "none"

\* no file downloaded
NoFile == <<>>

Init ==
    /\ app \in Apps
    /\ rawInput = <<>>
    /\ provider = IF app = "part_000" THEN "gemini" ELSE "deepseek"
    /\ deepSeekKey = <<>>
    /\ status = [total |-> 0, completed |-> 0, isProcessing |-> FALSE,
                 error |-> Undefined]
    /\ results = <<>>
    /\ isWaitingForNextBatch = FALSE
    /\ alert = NoAlert
    /\ download = NoFile
    /\ runs = [r \in Slots |-> FreeRun]

(***************************************************************************)
(* The user's actions                                                      *)
(***************************************************************************)
\* onChange of the text area
SetRawInput(text) ==
    /\ rawInput' = text
    /\ runs' = Purge(runs)
    /\ alert' = NoAlert
    /\ UNCHANGED download
    /\ UNCHANGED <<app, provider, deepSeekKey, status, results,
                   isWaitingForNextBatch>>

\* the engine buttons of the settings panel of part_000 (the panel itself,
\* showSettings, is display state and is left out: the user can open it at
\* any time)
SetProvider(prov) ==
    /\ app = "part_000"
    /\ provider' = prov
    /\ runs' = Purge(runs)
    /\ alert' = NoAlert
    /\ UNCHANGED download
    /\ UNCHANGED <<app, rawInput, deepSeekKey, status, results,
                   isWaitingForNextBatch>>

\* the key field: in the settings panel when DeepSeek is selected
\* (part_000), always there (part_001)
SetDeepSeekKey(key) ==
    /\ app = "part_000" => provider = "deepseek"
    /\ deepSeekKey' = key
    /\ runs' = Purge(runs)
    /\ alert' = NoAlert
    /\ UNCHANGED download
    /\ UNCHANGED <<app, rawInput, provider, status, results,
                   isWaitingForNextBatch>>

\* the reset button, shown when there is a result or some text; it is not
\* disabled while a run is in progress, and it stops no run
clearAll(confirmed) ==
    /\ Len(results) > 0 \/ Len(rawInput) > 0
    /\ runs' = Purge(runs)
    /\ alert' = NoAlert
    /\ UNCHANGED download
    /\ IF confirmed
       THEN /\ rawInput' = <<>>
            /\ results' = <<>>
            /\ status' = [total |-> 0, completed |-> 0, isProcessing |-> FALSE,
                          error |-> Undefined]
            /\ UNCHANGED <<app, provider, deepSeekKey, isWaitingForNextBatch>>
       ELSE UNCHANGED <<app, rawInput, provider, deepSeekKey, status, results,
                        isWaitingForNextBatch>>

\* disabled={status.isProcessing || !rawInput.trim()} (part_000), and
\* || !apiKey.trim() (part_001)
StartEnabled ==
    /\ ~status.isProcessing
    /\ Trim(rawInput) # <<>>
    /\ app = "part_001" => Trim(deepSeekKey) # <<>>

\* mutant: the key is not looked at
AcceptedWithoutKey(inputs) == Len(inputs) # 0

\* whether handleProcess goes past its two checks: the parsed input is not
\* empty and, for DeepSeek, there is a key
Accepted(inputs) ==
    /\ Len(inputs) # 0
    /\ ~(provider = "deepseek" /\ Trim(deepSeekKey) = <<>>)

\* the message of the check that rejects the start: part_000 looks at the
\* parsed input first, part_001 at the key first
Rejection(inputs) ==
    IF app = "part_001"
    THEN (IF Trim(deepSeekKey) = <<>> THEN "enter the API key first"
          ELSE "provide valid data")
    ELSE (IF Len(inputs) = 0 THEN "provide valid data"
          ELSE "enter the API key first")

\* the click on the start button, up to the first await.  overlap tells
\* whether the user may start a run while an earlier one is still in its loop
handleProcess(overlap) ==
    /\ StartEnabled
    /\ LET inputs == parseInput(rawInput)
           rs == Purge(runs)
           free == {r \in Slots : rs[r].pc = "free"}
       IN  IF ~Accepted(inputs)
           THEN /\ runs' = rs
                /\ alert' = Rejection(inputs)
                /\ UNCHANGED download
                /\ UNCHANGED <<app, rawInput, provider, deepSeekKey, status,
                               results, isWaitingForNextBatch>>
           ELSE /\ free # {}
                /\ overlap \/ free = Slots
                /\ TotalCalls(rs, MaxRuns) < MaxCalls
                /\ status' = [total |-> Len(inputs), completed |-> 0,
                              isProcessing |-> TRUE, error |-> Undefined]
                /\ results' = <<>>
                /\ alert' = NoAlert
                /\ UNCHANGED download
                /\ runs' = [rs EXCEPT ![CHOOSE r \in free : \A q \in free : r <= q]
                                         = NewRun(inputs, provider)]
                /\ UNCHANGED <<app, rawInput, provider, deepSeekKey,
                               isWaitingForNextBatch>>

(***************************************************************************)
(* The CSV export: downloadCSV                                             *)
(***************************************************************************)
QUOTE == "\""
COMMA == ","

\* the byte order mark the file begins with
BOM == "BOM"

\* s.replace(/"/g, '""')
RECURSIVE DoubleQuotes(_)
DoubleQuotes(s) ==
    IF s = <<>> THEN <<>>
    ELSE IF Head(s) = QUOTE THEN <<QUOTE, QUOTE>> \o DoubleQuotes(Tail(s))
    ELSE <<Head(s)>> \o DoubleQuotes(Tail(s))

\* `"${s}"`
Quoted(s) == <<QUOTE>> \o s \o <<QUOTE>>

\* Array.prototype.join with a one-character separator
RECURSIVE Join(_, _)
Join(parts, sep) ==
    IF parts = <<>> THEN <<>>
    ELSE IF Len(parts) = 1 THEN parts[1]
    ELSE parts[1] \o <<sep>> \o Join(Tail(parts), sep)

\* the header line; every column title is one token
CsvHeader ==
    Join(<<<<"SKU">>, <<"Original CN">>, <<"Russian Name">>,
           <<"Russian Description">>, <<"CN Translation">>>>, COMMA)

\* one row: sku and chineseName between quotes as they are, the three
\* Russian fields between quotes with their quotes doubled
CsvRow(r) ==
    Join(<<Quoted(r.sku),
           Quoted(r.chineseName),
           Quoted(DoubleQuotes(r.russianName)),
           Quoted(DoubleQuotes(r.russianDescription)),
           Quoted(DoubleQuotes(r.backTranslation))>>, COMMA)

CsvText(rs) ==
    <<BOM>> \o CsvHeader \o <<NL>>
        \o Join([k \in 1..Len(rs) |-> CsvRow(rs[k])], NL)

\* the download button, shown when there are results
downloadCSV ==
    /\ Len(results) # 0
    /\ download' = CsvText(results)
    /\ UNCHANGED <<app, rawInput, provider, deepSeekKey, status, results,
                   isWaitingForNextBatch, alert, runs>>

(***************************************************************************)
(* The run: the batch loop of handleProcess and the adapter it calls       *)
(***************************************************************************)
CurrentBatch(run) == Slice(run.inputs, run.i, BatchSize(run.provider))

AdapterStep(run, c) ==
    IF run.provider = "gemini"
    THEN processProductsBatch(generateWithRetry(run.attempt, c), c)
    ELSE processProductsWithDeepSeek(makeRequest(run.attempt, c), c)

\* the error of the attempt whose request completed with c (an observer)
AttemptError(prov, c) ==
    IF prov = "gemini"
    THEN (IF c.type = "response" /\ c.status = 200 /\ c.readable THEN TypeError
          ELSE GeminiError(c))
    ELSE (IF c.type = "reject" THEN FetchError
          ELSE IF ~c.readable THEN SyntaxError
          ELSE HttpError(c.status))

\* err.message of the Error the adapter throws to handleProcess
AdapterFailureMessage(prov, error) ==
    IF prov = "gemini" THEN GeminiFailureMessage
    ELSE DeepSeekFailureMessage(error)

\* the end of the text of status.error, after err.message
ErrorSuffix ==
    IF app = "part_000" THEN "export what is done, check network/API key"
    ELSE "check API key balance or network"

\* mutant: no cap at total
AdvanceUncapped(completed, batchLength, total) == completed + batchLength

\* Math.min(prev.completed + batch.length, prev.total)
Advance(completed, batchLength, total) == Min(completed + batchLength, total)

\* await new Promise(resolve => setTimeout(resolve, 1500))
PacingDelay == 1500

\* the adapter returned: setResults, setStatus, i += batchSize, and either
\* the pacing delay of the next batch or the end of the loop and finally
BatchSucceeded(r, run, value) ==
    LET batch == CurrentBatch(run)
        batchResults == Reconcile(batch, value)
        next == run.i + BatchSize(run.provider)
        more == next < Len(run.inputs)
    IN  /\ results' = results \o batchResults
        /\ status' = [status EXCEPT
                        !.completed = Advance(status.completed, Len(batch),
                                              status.total),
                        !.isProcessing = IF more THEN @ ELSE FALSE]
        /\ isWaitingForNextBatch' = more
        /\ runs' = [runs EXCEPT ![r] =
                      [run EXCEPT !.i = next,
                                  !.pc = IF more THEN "pacing" ELSE "done",
                                  !.wait = IF more THEN PacingDelay ELSE 0,
                                  !.pacings = IF more THEN @ + 1 ELSE @,
                                  !.callResult = "ok",
                                  !.received = Append(@, value),
                                  !.returned = @ \o batchResults]]

\* the adapter threw: catch sets status.error, finally ends the run
BatchFailed(r, run, error) ==
    /\ status' = [status EXCEPT
                    !.error = <<"interrupted: ">>
                              \o AdapterFailureMessage(run.provider, error)
                              \o <<ErrorSuffix>>,
                    !.isProcessing = FALSE]
    /\ isWaitingForNextBatch' = FALSE
    /\ runs' = [runs EXCEPT ![r] =
                  [run EXCEPT !.pc = "done", !.callResult = "threw",
                              !.failed = TRUE]]
    /\ UNCHANGED results

\* the adapter waits before its next attempt: await delay(wait)
BackoffStarted(r, run, wait, rate) ==
    /\ runs' = [runs EXCEPT ![r] = [run EXCEPT !.pc = "backoff", !.wait = wait,
                                                !.lastRate = rate]]
    /\ UNCHANGED <<status, results, isWaitingForNextBatch>>

\* the request of run r completes with c: the adapter's handling of it and,
\* when the adapter returns or throws, the rest of the loop body
RequestCompletes(r, c) ==
    /\ runs[r].pc = "fetch"
    /\ LET step == AdapterStep(runs[r], c)
           seen == IF step.next = "return" THEN runs[r].kinds
                   ELSE KindsAfter(runs[r].kinds,
                                   FailureClass(runs[r].provider, c))
           run == [runs[r] EXCEPT
                      !.kinds = seen,
                      !.lastError = IF step.next = "throw"
                                    THEN AttemptError(runs[r].provider, c)
                                    ELSE @,
                      !.lastArray = IF step.next = "return" THEN c.isArray
                                    ELSE @]
       IN  CASE step.next = "return" -> BatchSucceeded(r, run, step.value)
             [] step.next = "retry" ->
                    BackoffStarted(r, run, step.wait,
                                   RateLimited(runs[r].provider, c))
             [] step.next = "throw" -> BatchFailed(r, run, step.error)
    /\ alert' = NoAlert
    /\ UNCHANGED download
    /\ UNCHANGED <<app, rawInput, provider, deepSeekKey>>

\* mutant: the retry sends the same attempt again
BackoffElapsesSameAttempt(r) ==
    /\ runs[r].pc = "backoff"
    /\ runs' = [runs EXCEPT ![r] =
                  [runs[r] EXCEPT !.pc = "fetch", !.wait = 0,
                                  !.lastRate = FALSE]]
    /\ alert' = NoAlert
    /\ UNCHANGED download
    /\ UNCHANGED <<app, rawInput, provider, deepSeekKey, status, results,
                   isWaitingForNextBatch>>

\* the delay of a retry is over: the next attempt sends its request
BackoffElapses(r) ==
    /\ runs[r].pc = "backoff"
    /\ runs' = [runs EXCEPT ![r] =
                  [runs[r] EXCEPT !.pc = "fetch", !.attempt = @ + 1,
                                  !.nreq = @ + 1, !.wait = 0,
                                  !.lastRate = FALSE]]
    /\ alert' = NoAlert
    /\ UNCHANGED download
    /\ UNCHANGED <<app, rawInput, provider, deepSeekKey, status, results,
                   isWaitingForNextBatch>>

\* the pacing delay (1500 ms) is over: setIsWaitingForNextBatch(false) and
\* the batch is handed to the adapter, which sends its first request
PacingElapses(r) ==
    /\ runs[r].pc = "pacing"
    /\ TotalCalls(runs, MaxRuns) < MaxCalls
    /\ isWaitingForNextBatch' = FALSE
    /\ alert' = NoAlert
    /\ UNCHANGED download
    /\ runs' = [runs EXCEPT ![r] =
                  [runs[r] EXCEPT !.pc = "fetch", !.attempt = FirstAttempt(@),
                                  !.nreq = 1,
                                  !.prevRetried = (runs[r].nreq > 1),
                                  !.wait = 0,
                                  !.kinds = "none", !.callResult = "pending",
                                  !.calls = Append(@, CurrentBatch(runs[r]))]]
    /\ UNCHANGED <<app, rawInput, provider, deepSeekKey, status, results>>

(***************************************************************************)
(* The specifications                                                      *)
(***************************************************************************)
\* the completions without their variety: the records in order, or a
\* request that failed
BasicCompletions(batch) ==
    {Completion("response", 200, TRUE, FALSE,
                [k \in 1..Len(batch) |-> EntryFor(batch[k])]),
     Completion("reject", 0, FALSE, FALSE, NoEntries)}

CompletionsOf(run, basic) ==
    IF run.pc # "fetch" THEN {}
    ELSE IF basic THEN BasicCompletions(CurrentBatch(run))
    ELSE Completions(CurrentBatch(run))

UserStep(texts, keys, overlap) ==
    \/ \E text \in texts : SetRawInput(text)
    \/ \E prov \in Providers : SetProvider(prov)
    \/ \E key \in keys : SetDeepSeekKey(key)
    \/ \E confirmed \in BOOLEAN : clearAll(confirmed)
    \/ handleProcess(overlap)

RunStep(basic) ==
    \/ \E r \in Slots :
          \E c \in CompletionsOf(runs[r], basic) : RequestCompletes(r, c)
    \/ \E r \in Slots : BackoffElapses(r)
    \/ \E r \in Slots : PacingElapses(r)

\* the user starts a run only when no earlier run is still in its loop; the
\* providers answer in every way
Next == UserStep(RawTexts, ApiKeys, FALSE) \/ RunStep(FALSE)

Spec == Init /\ [][Next]_vars

\* the user may start a run while earlier runs are still in their loops
\* (after a reset the start button is enabled again); the user pastes one of
\* two lists and types a key, the providers answer or cannot be reached
NextOverlap ==
    UserStep({SampleText, TextOf(MaxInputs)}, {<<"s", "k">>}, TRUE)
    \/ RunStep(TRUE)

SpecOverlap == Init /\ [][NextOverlap]_vars

\* the runs under the scheduling of the event loop: the user pastes the long
\* list and types a key, the providers answer in every way, and every
\* request that is in flight completes and every timer that is set fires
NextLive == UserStep({TextOf(MaxInputs)}, {<<"s", "k">>}, FALSE) \/ RunStep(FALSE)

RequestSettles(r) ==
    \E c \in CompletionsOf(runs[r], FALSE) : RequestCompletes(r, c)

EventLoop ==
    \A r \in Slots :
        /\ WF_vars(RequestSettles(r))
        /\ WF_vars(BackoffElapses(r))
        /\ WF_vars(PacingElapses(r))

SpecLive == Init /\ [][NextLive]_vars /\ EventLoop

\* parseInput on every short text: the text area holds any text of up to
\* MaxText characters among a letter, a tab, a space and a line feed, a key
\* is there, and the user presses start
RECURSIVE TextsOver(_, _)
TextsOver(chars, n) ==
    IF n = 0 THEN {<<>>}
    ELSE LET shorter == TextsOver(chars, n - 1)
         IN  shorter \cup {Append(t, c) : t \in shorter, c \in chars}

InitParse ==
    /\ app \in Apps
    /\ rawInput \in TextsOver({"a", TAB, SP, NL}, MaxText)
    /\ provider = IF app = "part_000" THEN "gemini" ELSE "deepseek"
    /\ deepSeekKey = <<"s", "k">>
    /\ status = [total |-> 0, completed |-> 0, isProcessing |-> FALSE,
                 error |-> Undefined]
    /\ results = <<>>
    /\ isWaitingForNextBatch = FALSE
    /\ alert = NoAlert
    /\ download = NoFile
    /\ runs = [r \in Slots |-> FreeRun]

NextParse == handleProcess(FALSE)

SpecParse == InitParse /\ [][NextParse]_vars

\* downloadCSV on result lists of up to MaxRows records whose fields hold
\* letters, quotes and commas
CsvValues == {<<>>, <<"a">>, <<"a", QUOTE>>, <<COMMA, "a">>}

CsvRecords ==
    [sku : CsvValues, chineseName : CsvValues, russianName : CsvValues,
     russianDescription : {<<"d">>}, backTranslation : CsvValues]

PlainRecord ==
    [sku |-> <<"b">>, chineseName |-> <<"B">>, russianName |-> <<"R">>,
     russianDescription |-> <<"d", QUOTE, COMMA>>, backTranslation |-> <<"B">>]

RECURSIVE PlainRows(_)
PlainRows(n) == IF n = 0 THEN <<>> ELSE <<PlainRecord>> \o PlainRows(n - 1)

InitCsv ==
    /\ app \in Apps
    /\ rawInput = <<>>
    /\ provider = IF app = "part_000" THEN "gemini" ELSE "deepseek"
    /\ deepSeekKey = <<>>
    /\ status = [total |-> 0, completed |-> 0, isProcessing |-> FALSE,
                 error |-> Undefined]
    /\ \E rec \in CsvRecords, n \in 0..(MaxRows - 1) :
           results = <<rec>> \o PlainRows(n)
    /\ isWaitingForNextBatch = FALSE
    /\ alert = NoAlert
    /\ download = NoFile
    /\ runs = [r \in Slots |-> FreeRun]

NextCsv == downloadCSV

SpecCsv == InitCsv /\ [][NextCsv]_vars

(***************************************************************************)
(* Properties                                                              *)
(***************************************************************************)
Started(run) == run.pc # "free"

\* the batches a run has seen succeed
Succeeded(run) ==
    IF run.callResult = "ok" THEN Len(run.calls) ELSE Len(run.calls) - 1

CeilDiv(n, k) == (n + k - 1) \div k

\* inputs[(j-1)*K .. min(j*K, N)-1], counted from 0 as in the source
ExpectedSlice(inputs, j, K) ==
    [k \in 1..(Min(j * K, Len(inputs)) - (j - 1) * K) |-> inputs[(j - 1) * K + k]]

RECURSIVE Flatten(_)
Flatten(ss) == IF ss = <<>> THEN <<>> ELSE Head(ss) \o Flatten(Tail(ss))

\* C1: in every reachable state, whatever the interleaving of starts, batch
\* successes and failures, delays and resets, 0 <= completed <= total.
C1_CompletedWithinTotal ==
    /\ 0 <= status.completed
    /\ status.completed <= status.total

\* a run that was reset and restarted: the old run's batch (4 or 5 records)
\* succeeded while the new run of 2 records had yet no batch done, and
\* completed stopped at the new total
C1_Witness ==
    \E a, b \in Slots :
        /\ a # b
        /\ runs[a].callResult = "ok"
        /\ Live(runs[b]) /\ Succeeded(runs[b]) = 0
        /\ status.total = 2
        /\ status.completed = 2

\* C2: a run hands the adapter the contiguous slices of its inputs, of K
\* records each (4 for Gemini, 5 for DeepSeek) except possibly the last, in
\* input order; when it ends with no batch failed it has made exactly
\* ceil(N/K) calls, which together hold every record once.
C2_BatchSlicing ==
    \A r \in Slots :
        LET run == runs[r]
            K == IF run.provider = "gemini" THEN 4 ELSE 5
            N == Len(run.inputs)
        IN  Started(run) =>
              /\ N >= 1
              /\ Len(run.calls) <= CeilDiv(N, K)
              /\ \A j \in 1..Len(run.calls) :
                    /\ run.calls[j] = ExpectedSlice(run.inputs, j, K)
                    /\ j < CeilDiv(N, K) => Len(run.calls[j]) = K
              /\ (run.pc = "done" /\ ~run.failed) =>
                    /\ Len(run.calls) = CeilDiv(N, K)
                    /\ Flatten(run.calls) = run.inputs

\* a run of three batches, the last one short, ended with no failure
C2_Witness ==
    \E r \in Slots :
        /\ runs[r].pc = "done" /\ ~runs[r].failed
        /\ Len(runs[r].calls) = 3
        /\ Len(runs[r].calls[3]) < Len(runs[r].calls[1])

\* C3: while a run is in its loop, completed never decreases from one state
\* to the next and never exceeds total.
C3_CompletedMonotone ==
    [][(\E r \in Slots : Live(runs[r])) =>
          /\ status'.completed >= status.completed
          /\ status'.completed <= status'.total]_vars

\* C4: when a run ends because batch j failed, completed is (j-1)*K, the
\* sizes of the batches before it.
C4_CompletedAtFailure ==
    \A r \in Slots :
        (runs[r].pc = "done" /\ runs[r].failed) =>
            status.completed =
                (Len(runs[r].calls) - 1) * (IF runs[r].provider = "gemini" THEN 4 ELSE 5)

\* C5: when a run ends because batch j failed, the results are exactly the
\* records returned for batches 1..j-1 and status.error is a non-empty text.
C5_PartialResults ==
    \A r \in Slots :
        (runs[r].pc = "done" /\ runs[r].failed) =>
            /\ results = runs[r].returned
            /\ status.error # Undefined

\* C6: once an adapter call of a run has thrown, the run makes no further
\* call and waits for no further delay, it is over with isProcessing false,
\* and status.error is written once in the run: it is unset from the start
\* of the run until its first failure, and set from then on.
C6_FirstFailureEndsRun ==
    \A r \in Slots :
        /\ runs[r].failed =>
              /\ runs[r].pc = "done"
              /\ ~status.isProcessing
              /\ status.error # Undefined
        /\ Live(runs[r]) => status.error = Undefined

\* C7: a generateWithRetry call whose attempts all fail with a rate-limit
\* error makes exactly maxRetries = 3 requests and then throws (it waits
\* after the first and the second only); when the third attempt succeeds
\* after two rate-limited ones, the call returns and the run goes on.
C7_GeminiRetryCeiling ==
    \A r \in Slots :
        LET run == runs[r]
        IN  (Started(run) /\ run.provider = "gemini" /\ run.kinds = "rate") =>
              /\ run.nreq <= 3
              /\ run.callResult = "threw" => run.nreq = 3
              /\ run.pc = "backoff" => run.nreq < 3
              /\ run.callResult = "ok" => ~run.failed /\ run.pc \in {"pacing", "done"}
              /\ (run.pc = "fetch" /\ run.nreq = 3) =>
                    \A es \in ResponseEntries(CurrentBatch(run)) :
                        generateWithRetry(run.attempt,
                            Completion("response", 200, TRUE, FALSE, es)).next = "return"

\* the third request succeeded after two rate-limited attempts
C7_Witness ==
    \E r \in Slots :
        /\ runs[r].provider = "gemini" /\ runs[r].kinds = "rate"
        /\ runs[r].nreq = 3 /\ runs[r].callResult = "ok"

\* C8 as stated: a makeRequest(0) call whose every response is HTTP 429
\* makes exactly 3 requests and then throws, never a 4th.
C8_Original ==
    \A r \in Slots :
        LET run == runs[r]
        IN  (Started(run) /\ run.provider = "deepseek" /\ run.kinds = "rate") =>
              /\ run.nreq <= 3
              /\ run.callResult = "threw" => run.nreq = 3

\* C8 amended: a makeRequest(0) call whose every response is HTTP 429 with
\* a JSON error body makes exactly 4 requests (attempts 0 to 3) and then
\* throws, never a 5th.
C8_DeepSeekRateLimitCeiling ==
    \A r \in Slots :
        LET run == runs[r]
        IN  (Started(run) /\ run.provider = "deepseek" /\ run.kinds = "rate") =>
              /\ run.nreq <= 4
              /\ run.callResult = "threw" => run.nreq = 4
              /\ run.pc = "backoff" => run.nreq <= 3

C8_Witness ==
    \E r \in Slots :
        /\ runs[r].provider = "deepseek" /\ runs[r].kinds = "rate"
        /\ runs[r].callResult = "threw" /\ runs[r].nreq = 4

\* C9 as stated: a DeepSeek call whose every attempt fails with an error
\* other than HTTP 429 is retried once, after 2000 ms: 2 requests.
C9_Original ==
    \A r \in Slots :
        LET run == runs[r]
        IN  (Started(run) /\ run.provider = "deepseek" /\ run.kinds = "other") =>
              /\ run.nreq <= 2
              /\ run.callResult = "threw" => run.nreq = 2
              /\ run.pc = "backoff" => run.wait = 2000

\* C9 amended: such a call is retried twice, each time after 2000 ms: it
\* makes exactly 3 requests before the error is thrown to the caller.
C9_DeepSeekFlatRetry ==
    \A r \in Slots :
        LET run == runs[r]
        IN  (Started(run) /\ run.provider = "deepseek" /\ run.kinds = "other") =>
              /\ run.nreq <= 3
              /\ run.callResult = "threw" => run.nreq = 3
              /\ run.pc = "backoff" => run.wait = 2000 /\ run.nreq <= 2

C9_Witness ==
    \E r \in Slots :
        /\ runs[r].provider = "deepseek" /\ runs[r].kinds = "other"
        /\ runs[r].callResult = "threw" /\ runs[r].nreq = 3

\* C10: as soon as an attempt of generateWithRetry fails with an error that
\* is no rate limit, the call has thrown: no delay, no further request,
\* whatever the attempt.
C10_GeminiNoRetryOtherwise ==
    \A r \in Slots :
        LET run == runs[r]
        IN  (Started(run) /\ run.provider = "gemini"
                /\ run.kinds \in {"other", "mixed"}) =>
              /\ run.callResult = "threw"
              /\ run.pc = "done"
              /\ run.wait = 0

\* the second attempt, after a rate-limited first one, failed otherwise
C10_Witness ==
    \E r \in Slots :
        /\ runs[r].provider = "gemini" /\ runs[r].kinds = "mixed"
        /\ runs[r].nreq = 2 /\ runs[r].callResult = "threw"

RECURSIVE TwoTo(_)
TwoTo(n) == IF n = 0 THEN 1 ELSE 2 * TwoTo(n - 1)

\* C11: in both adapters, whenever an attempt with index a that was answered
\* with a rate limit is followed by a retry, the wait before this retry is
\* 2^(a+1) * 1000 ms.
C11_ExponentialBackoff ==
    \A r \in Slots :
        (runs[r].pc = "backoff" /\ runs[r].lastRate) =>
            runs[r].wait = TwoTo(runs[r].attempt + 1) * 1000

\* C12: in every reachable state at most one run is in its batch loop and
\* at most one provider request is in flight, whatever the user does (start,
\* reset, editing) while a run goes on.
C12_StrictlySequential ==
    /\ Cardinality({r \in Slots : Live(runs[r])}) <= 1
    /\ Cardinality({r \in Slots : runs[r].pc = "fetch"}) <= 1

\* a step in which no run moves: the user's
UserActs == \A r \in Slots : Live(runs[r]) => runs'[r] = runs[r]

\* C13: while a run is in its batch loop, no action of the user changes
\* RunStatus or the accumulated results.
C13_ExclusiveWriter ==
    [][((\E r \in Slots : Live(runs[r])) /\ UserActs) =>
          (status' = status /\ results' = results)]_vars

\* the start is requested with no record in the parsed input or, for
\* DeepSeek, with a key that is empty after trimming
Invalid ==
    \/ Len(parseInput(rawInput)) = 0
    \/ provider = "deepseek" /\ Trim(deepSeekKey) = <<>>

\* a run is entered in this step
RunEntered == \E r \in Slots : ~Live(runs[r]) /\ Live(runs'[r])

\* C14: a start requested with an invalid input enters no run, and the step
\* that rejects it (it shows a message) hands no batch to an adapter and
\* leaves RunStatus, the results and the waiting flag as they were.
C14_ValidationRejection ==
    [][/\ RunEntered => ~Invalid
       /\ alert' # NoAlert =>
             /\ Invalid
             /\ status' = status
             /\ results' = results
             /\ isWaitingForNextBatch' = isWaitingForNextBatch
             /\ \A r \in Slots : Len(runs'[r].calls) <= Len(runs[r].calls)]_vars

\* a start was rejected for its input, after a run that left results behind
C14_Witness ==
    /\ alert # NoAlert
    /\ Len(parseInput(rawInput)) = 0
    /\ Len(results) > 0
    /\ status.total > 0

IsPrefix(s, t) == Len(s) <= Len(t) /\ SubSeq(t, 1, Len(s)) = s

\* C15: an accepted start sets results to empty, total to the number of
\* parsed inputs, completed to 0, isProcessing to true and error to unset;
\* from then to the end of the run every change of results appends records.
C15_AppendOnly ==
    [][/\ \A r \in Slots :
             (~Live(runs[r]) /\ Live(runs'[r])) =>
                 /\ results' = <<>>
                 /\ status' = [total |-> Len(parseInput(rawInput)),
                               completed |-> 0, isProcessing |-> TRUE,
                               error |-> Undefined]
       /\ (\E r \in Slots : Live(runs[r])) => IsPrefix(results, results')]_vars

\* C16: when every batch of a run has succeeded, the run has ended with
\* isProcessing false, error unset and completed equal to total, however
\* many records the responses held.
C16_FullCompletion ==
    \A r \in Slots :
        (runs[r].pc = "done" /\ ~runs[r].failed) =>
            /\ ~status.isProcessing
            /\ status.error = Undefined
            /\ status.completed = status.total

\* C17: the first batch of a run goes to the adapter with no pacing delay,
\* every later batch after exactly one delay of 1500 ms; the waiting flag is
\* true exactly during such a delay: false while a request is in flight or
\* an adapter waits to retry, and false once the run has ended.
C17_PacingAndWaiting ==
    \A r \in Slots :
        LET run == runs[r]
        IN  Started(run) =>
              /\ Len(run.calls) =
                    1 + run.pacings - (IF run.pc = "pacing" THEN 1 ELSE 0)
              /\ run.pc = "pacing" => run.wait = 1500 /\ isWaitingForNextBatch
              /\ run.pc \in {"fetch", "backoff", "done"} => ~isWaitingForNextBatch

\* the name the claim gives an entry: that of the first record of the batch
\* with the entry's sku, the sentinel when there is none
ExpectedName(batch, sku) ==
    LET hits == {i \in 1..Len(batch) : batch[i].sku = sku}
    IN  IF hits = {} THEN <<"unknown">>
        ELSE batch[CHOOSE i \in hits : \A h \in hits : i <= h].chineseName

ExpectedResults(batch, entries) ==
    [k \in 1..Len(entries) |->
        [sku |-> entries[k].sku,
         chineseName |-> ExpectedName(batch, entries[k].sku),
         russianName |-> entries[k].russianName,
         russianDescription |-> entries[k].russianDescription,
         backTranslation |-> entries[k].backTranslation]]

\* C18: for every entry of a parsed response the adapter returns exactly one
\* ProductResult, whose chineseName is that of the first record of the
\* submitted batch with the entry's sku, or the sentinel when no record of
\* the batch has it; an unmatched entry fails nothing.
C18_Reconciliation ==
    \A r \in Slots :
        LET run == runs[r]
        IN  Started(run) =>
              /\ Len(run.received) = Succeeded(run)
              /\ run.returned =
                    Flatten([j \in 1..Len(run.received) |->
                                ExpectedResults(run.calls[j], run.received[j])])

\* a batch with a key that comes twice was answered with an entry for every
\* record and one entry with a foreign key
C18_Witness ==
    \E r \in Slots :
        /\ runs[r].callResult = "ok"
        /\ runs[r].inputs[1].sku = runs[r].inputs[2].sku
        /\ Len(runs[r].returned) = 4
        /\ runs[r].returned[2].chineseName = runs[r].inputs[1].chineseName
        /\ runs[r].returned[4].chineseName = <<"unknown">>

\* C19: at any point of a run the accumulated results are the records of the
\* batches that succeeded so far, in batch order, and within a batch in the
\* order of the entries of the provider's response.
C19_ResultOrdering ==
    \A r \in Slots :
        Started(runs[r]) =>
            results = Flatten([j \in 1..Len(runs[r].received) |->
                                  ExpectedResults(runs[r].calls[j],
                                                  runs[r].received[j])])

\* the records of the lines of the text whose first two fields are not
\* empty, in line order
LinesWithTwoFields(text) ==
    LET lines == SplitOn(text, NL, <<>>)
    IN  FilterValid([k \in 1..Len(lines) |-> ParseLine(lines[k])])

\* C20: parseInput returns, in line order, one record for exactly those
\* lines of the text whose first two fields, after splitting on a tab or a
\* run of two or more spaces and trimming, are both non-empty.
C20_InputParsing ==
    /\ \A r \in Slots :
          Started(runs[r]) => runs[r].inputs = LinesWithTwoFields(rawInput)
    /\ alert = "provide valid data" => LinesWithTwoFields(rawInput) = <<>>

\* a reader of quoted CSV: a field that begins with a quote runs to the
\* next quote that is not doubled, and a doubled quote in it is one quote;
\* commas separate the fields and line feeds the rows.  mode is "start" (at
\* the beginning of a field), "quoted" or "plain"
RECURSIVE ReadCsv(_, _, _, _)
ReadCsv(s, mode, field, row) ==
    IF s = <<>> THEN <<Append(row, field)>>
    ELSE IF mode = "quoted"
         THEN IF Head(s) = QUOTE
              THEN IF Len(s) >= 2 /\ s[2] = QUOTE
                   THEN ReadCsv(Tail(Tail(s)), "quoted", Append(field, QUOTE), row)
                   ELSE ReadCsv(Tail(s), "plain", field, row)
              ELSE ReadCsv(Tail(s), "quoted", Append(field, Head(s)), row)
    ELSE IF Head(s) = COMMA
         THEN ReadCsv(Tail(s), "start", <<>>, Append(row, field))
    ELSE IF Head(s) = NL
         THEN <<Append(row, field)>> \o ReadCsv(Tail(s), "start", <<>>, <<>>)
    ELSE IF mode = "start" /\ Head(s) = QUOTE
         THEN ReadCsv(Tail(s), "quoted", field, row)
    ELSE ReadCsv(Tail(s), "plain", Append(field, Head(s)), row)

FieldsOf(r) ==
    <<r.sku, r.chineseName, r.russianName, r.russianDescription,
      r.backTranslation>>

\* C21: the rows of the file downloadCSV writes, read back by a reader of
\* quoted CSV, are the five field values of every record of the results,
\* also when a value holds quotes or commas.
C21_CsvRoundTrip ==
    download # NoFile =>
        Tail(ReadCsv(download, "start", <<>>, <<>>))
            = [k \in 1..Len(results) |-> FieldsOf(results[k])]

\* C22: every adapter call begins with its attempt counter at 0: in each
\* call the counter is the number of requests of this call less one, and the
\* call has the same requests and waits at its disposal (3 requests for
\* Gemini and 4 for DeepSeek under rate limits, 3 for DeepSeek under other
\* failures, waits of 2^(a+1) s) whatever the calls before it consumed.
C22_PerCallCounter ==
    \A r \in Slots :
        LET run == runs[r]
        IN  Started(run) =>
              /\ run.attempt = run.nreq - 1
              /\ (run.callResult = "threw" /\ run.kinds = "rate") =>
                    run.nreq = (IF run.provider = "gemini" THEN 3 ELSE 4)
              /\ (run.callResult = "threw" /\ run.kinds = "other"
                     /\ run.provider = "deepseek") => run.nreq = 3
              /\ (run.pc = "backoff" /\ run.kinds = "rate") =>
                    run.wait = TwoTo(run.nreq) * 1000

\* the call for the second batch used all four requests of the rate-limit
\* path after the call for the first batch had retried
C22_Witness ==
    \E r \in Slots :
        /\ Len(runs[r].calls) = 2 /\ runs[r].prevRetried
        /\ runs[r].provider = "deepseek" /\ runs[r].kinds = "rate"
        /\ runs[r].callResult = "threw" /\ runs[r].nreq = 4

\* C23: when an adapter call gives up, the error that leaves the retry
\* logic is that of the last attempt made; the adapter wraps it into its
\* message, and status.error holds the message of the error the adapter
\* threw: the fixed text of the Gemini adapter, or the DeepSeek prefix with
\* the message of the last attempt's error.
C23_ErrorPropagation ==
    \A r \in Slots :
        (runs[r].pc = "done" /\ runs[r].failed) =>
            status.error =
                <<"interrupted: ">>
                \o (IF runs[r].provider = "gemini"
                    THEN <<"API quota or timeout">>
                    ELSE <<"DeepSeek failed: ", runs[r].lastError.message>>)
                \o <<ErrorSuffix>>

\* a DeepSeek call gave up at its third request, the first having been
\* answered with a rate limit and the last with a body that is no JSON
C23_Witness ==
    \E r \in Slots :
        /\ runs[r].pc = "done" /\ runs[r].failed
        /\ runs[r].provider = "deepseek" /\ runs[r].nreq = 3
        /\ runs[r].kinds = "mixed"
        /\ runs[r].lastError = SyntaxError

\* C24: whenever the DeepSeek adapter returns normally, the content of the
\* response was an array of entries; a response whose content is no such
\* array makes the call throw.
C24_DeepSeekNotSilent ==
    \A r \in Slots :
        (runs[r].provider = "deepseek" /\ runs[r].callResult = "ok") =>
            runs[r].lastArray

\* C25: when the adapter call of a batch succeeds after attempts that
\* failed and were retried, the scheduler sees one successful batch:
\* status.error is and stays unset, the records of the response are appended
\* once, completed advances once by the size of the batch, and the run goes
\* on with the next batch or ends without failure.
C25_TransientInvisible ==
    [][\A r \in Slots :
          (/\ runs[r].pc = "fetch" /\ runs[r].kinds # "none"
           /\ runs'[r].callResult = "ok" /\ runs'[r].pc # "free") =>
              LET batch == runs[r].calls[Len(runs[r].calls)]
                  got == runs'[r].received[Len(runs'[r].received)]
                  more == runs[r].i + Len(batch) < Len(runs[r].inputs)
              IN  /\ status.error = Undefined /\ status'.error = Undefined
                  /\ results' = results \o ExpectedResults(batch, got)
                  /\ status'.completed = status.completed + Len(batch)
                  /\ ~runs'[r].failed
                  /\ runs'[r].pc = (IF more THEN "pacing" ELSE "done")
                  /\ Len(runs'[r].calls) = Len(runs[r].calls)]_vars

\* the run of slot r has ended and the application is idle, after all its
\* batches succeeded or after the first batch that failed
EndedIdle(r) ==
    LET run == runs[r]
    IN  /\ run.pc = "done"
        /\ ~status.isProcessing /\ ~isWaitingForNextBatch
        /\ IF run.failed
           THEN run.callResult = "threw" /\ Succeeded(run) = Len(run.calls) - 1
           ELSE /\ run.callResult = "ok"
                /\ Len(run.calls) =
                      CeilDiv(Len(run.inputs), BatchSize(run.provider))

\* C26: when every request completes and every timer fires, a run that has
\* started ends with isProcessing false and the waiting flag false, after
\* its ceil(N/K) batches succeeded or after the first batch that failed.
C26_Termination == \A r \in Slots : Live(runs[r]) ~> EndedIdle(r)

\* a Gemini run ended idle after its three batches, one of which was retried
C26_Witness ==
    \E r \in Slots :
        /\ EndedIdle(r) /\ ~runs[r].failed
        /\ Len(runs[r].calls) = 3 /\ runs[r].pacings = 2
        /\ runs[r].prevRetried

\* C27: the two retry paths of makeRequest share the attempt counter: for
\* every sequence of 429 and other failures a DeepSeek call sends at most 4
\* requests, and a failure other than a 429 on the attempt of index 2 or
\* more is thrown without retry, whatever the earlier failures of the call
\* were (a retry from that attempt on is the back-off of a rate limit).
C27_SharedAttemptCounter ==
    \A r \in Slots :
        LET run == runs[r]
        IN  (Started(run) /\ run.provider = "deepseek") =>
              /\ run.nreq <= 4
              /\ run.attempt = run.nreq - 1
              /\ (run.pc = "backoff" /\ run.attempt >= 2) =>
                    run.lastRate /\ run.wait = Pow2(run.attempt + 1) * 1000
              /\ (run.pc = "backoff" /\ ~run.lastRate) =>
                    run.attempt < 2 /\ run.wait = FlatDelay
              /\ (run.callResult = "threw" /\ ~run.lastError.has429) =>
                    run.nreq >= 3

\* the third request of a call failed to reach the provider after an
\* earlier rate limit, and the call threw that failure without a retry
C27_Witness ==
    \E r \in Slots :
        /\ runs[r].provider = "deepseek" /\ runs[r].kinds = "mixed"
        /\ runs[r].nreq = 3 /\ runs[r].callResult = "threw"
        /\ runs[r].lastError = FetchError

\* C28: in every reachable state the waiting flag is set only while a run
\* is in progress: isWaitingForNextBatch implies status.isProcessing.
C28_WaitingImpliesProcessing == isWaitingForNextBatch => status.isProcessing

\* C29: when a run has ended and no reset has happened since, status.error
\* is unset if and only if completed equals total.
C29_ErrorIffIncomplete ==
    \A r \in Slots :
        (runs[r].pc = "done" /\ ~status.isProcessing
           /\ \A q \in Slots : ~Live(runs[q])) =>
            ((status.error = Undefined) <=> (status.completed = status.total))

=============================================================================
